---- MODULE Spec2Model ----
(***************************************************************************)
(* Model of the video stitching engine of src/video_stitch_node.py:        *)
(* interpolate_frames, crossfade_sequences, resize_video_to_match,         *)
(* stitch_two_videos, VideoStitchMultiple.execute (chain stitch),          *)
(* VideoLoopSeamless.execute (seamless loop) and VideoFrameBlender.execute,*)
(* of the scraping session of src/web_scraper_node.py and of               *)
(* add_image_to_library of src/library_manager.py.                         *)
(*                                                                         *)
(* A frame is modelled by one brightness sample (a uniformly coloured      *)
(* frame) in fixed point: the float range [0.0, 1.0] is 0..Scale, with     *)
(* SubLevels steps per 8-bit level.  A video (an IMAGE batch tensor of     *)
(* shape [N, H, W, C]) is a record [shape, frames]: a tensor keeps its     *)
(* shape when it holds zero frames.  A call either returns a video or      *)
(* raises; an Outcome records which.                                       *)
(***************************************************************************)
EXTENDS Integers, Sequences, FiniteSets, TLC

VARIABLES
    pc,                    \* which operation has run: "idle", "stitched", ...
    video_a, video_b,      \* stitch_two_videos: the two clips
    overlap_frames,        \* transition configuration
    crossfade_frames,
    interpolation_frames,
    interpolation_method,
    result,                \* Outcome of the operation that ran
    videos,                \* chain stitch: the slots video_1, video_2, video_3, ...
    partials,              \* chain stitch: result after video_1 and after each fold step
    total_frames,          \* chain stitch: the second output
    video,                 \* seamless loop: the clip
    blend_frames,          \* seamless loop: the requested blend count
    blend_curve,
    clamped_frames,        \* seamless loop: blend_frames after the clamp
    blended,               \* seamless loop: the blended frames built
    curve_site,            \* curve evaluation: "stitch" (lines 41-53, 88-97) or "loop"
    curve_method,
    curve_t,               \* the position t = <<num, den>>
    curve_alpha,           \* the weight computed
    frames_a,              \* frame blender: the inputs of VideoFrameBlender.execute
    frames_b,
    blend_factor,          \* <<num, den>>
    blend_mode,
    resized_b,             \* outcome of resize_video_to_match(a, b), line 480
    scraping_sessions,     \* web scraper: _scraping_sessions, session id -> session
    scrape_pc,             \* position of the start_scraping task
    max_images,            \* start_scraping: its argument
    image_index,           \* start_scraping: the loop variable i
    scraped_count,         \* start_scraping: the local counter
    pages_tried,           \* start_scraping: pages tried for the current image
    reported,              \* what get_scraping_status returned last
    images,                \* image library: the rows of table images
    machine_names,         \* image library: the rows of table machine_names
    library_calls,         \* calls of add_image_to_library made
    added                  \* what add_image_to_library returned last

stitchVars == <<video_a, video_b>>
configVars == <<overlap_frames, crossfade_frames, interpolation_frames,
                interpolation_method>>
chainVars  == <<videos, partials, total_frames>>
loopVars   == <<video, blend_frames, blend_curve, clamped_frames, blended>>

curveVars  == <<curve_site, curve_method, curve_t, curve_alpha>>

blendVars  == <<frames_a, frames_b, blend_factor, blend_mode, resized_b>>

scrapeVars == <<scraping_sessions, scrape_pc, max_images, image_index, scraped_count,
                pages_tried, reported>>

libraryVars == <<images, machine_names, library_calls, added>>

vars == <<pc, stitchVars, configVars, result, chainVars, loopVars, curveVars, blendVars,
          scrapeVars, libraryVars>>

---------------------------------------------------------------------------
(* Bounds of the model and constants of the program.                       *)

\* longest clip drawn for a pair stitch
MaxLen == 3
\* largest overlap_frames and crossfade_frames drawn
MaxTransition == 4
\* largest interpolation_frames drawn
MaxInterp == 2
\* chain stitch: optional slots modelled (video_3, video_4, ...)
MaxOptional == 2
\* chain stitch: longest clip, largest overlap/crossfade and interpolation drawn
MaxChainLen == 2
MaxChainTransition == 1
MaxChainInterp == 1
\* seamless loop: longest clip and largest blend_frames drawn
MaxLoopLen == 6
MaxBlend == 7
\* image library: calls of add_image_to_library in one run
MaxCalls == 3
\* web scraper: largest max_images drawn
MaxImages == 3
\* frame blender: frames per input, brightness levels, blend_factor steps
MaxBlendLen == 2
BlendLevels == 4
FactorSteps == 4
\* curve evaluation: largest denominator of a position t drawn
MaxCurveSteps == 8
\* fixed-point steps per 8-bit level of a sample
SubLevels == 4
\* fixed-point denominator of the cosine and sigmoid weights
Precision == 1000

\* (frame * 255).astype(np.uint8): the 8-bit range used by the resize
MaxSample == 255
\* schema minimum of overlap_frames
MinOverlap == 1

Scale == MaxSample * SubLevels
Gray  == Scale \div 2
White == Scale

---------------------------------------------------------------------------
(* Values.                                                                 *)

Shapes == { [h |-> 2, w |-> 2, c |-> 3], [h |-> 4, w |-> 6, c |-> 3] }
BaseShape == [h |-> 2, w |-> 2, c |-> 3]

Methods == {"linear", "ease_in_out", "cosine", "sigmoid", "bicubic"}

Video(shape, frames) == [shape |-> shape, frames |-> frames]
NoVideo == Video(BaseShape, <<>>)

Returned(v) == [raised |-> FALSE, value |-> v]
Raised      == [raised |-> TRUE,  value |-> NoVideo]

Min(x, y) == IF x <= y THEN x ELSE y
Max(x, y) == IF x >= y THEN x ELSE y

\* Python slices s[:k] and s[k:] for 0 <= k <= len(s)
Take(s, k) == SubSeq(s, 1, k)
Drop(s, k) == SubSeq(s, k + 1, Len(s))

---------------------------------------------------------------------------
(* The easing curves.  A weight alpha is a rational <<num, den>>.          *)

\* alpha = t
LinearAlpha(num, den) == <<num, den>>

\* mutant: t * t * (3 - t)
EaseInOutAlpha_Overshoot(num, den) == <<num * num * (3 * den - num), den * den * den>>

\* alpha = t * t * (3 - 2 * t)
EaseInOutAlpha(num, den) == <<num * num * (3 * den - 2 * num), den * den * den>>

PiFixed == (355 * Precision) \div 113

\* cos(x) for 0 <= x <= pi/2, x in fixed point: the Taylor series to x^10
CosSeries(x) ==
    LET x2 == (x * x) \div Precision
        t1 == (Precision * x2) \div (2 * Precision)
        t2 == (t1 * x2) \div (12 * Precision)
        t3 == (t2 * x2) \div (30 * Precision)
        t4 == (t3 * x2) \div (56 * Precision)
        t5 == (t4 * x2) \div (90 * Precision)
    IN  Precision - t1 + t2 - t3 + t4 - t5

\* np.cos(t * np.pi) for t = num/den in [0, 1]
CosPi(num, den) ==
    LET x == (PiFixed * num) \div den
    IN  IF 2 * num <= den THEN CosSeries(x) ELSE 0 - CosSeries(PiFixed - x)

\* alpha = (1 - np.cos(t * np.pi)) / 2
CosineAlpha(num, den) == <<(Precision - CosPi(num, den)) \div 2, Precision>>

\* np.exp(y) for 0 <= y <= 6, y in fixed point: exp(y/8)^8, series to y^6
ExpFixed(y) ==
    LET z  == y \div 8
        s1 == z
        s2 == (s1 * z) \div (2 * Precision)
        s3 == (s2 * z) \div (3 * Precision)
        s4 == (s3 * z) \div (4 * Precision)
        s5 == (s4 * z) \div (5 * Precision)
        s6 == (s5 * z) \div (6 * Precision)
        e1 == Precision + s1 + s2 + s3 + s4 + s5 + s6
        e2 == (e1 * e1) \div Precision
        e4 == (e2 * e2) \div Precision
    IN  (e4 * e4) \div Precision

\* mutant: steepness 6 instead of 12
SigmoidAlpha_Gentle(num, den) ==
    LET z6   == 6 * num - 3 * den
        mag  == IF z6 >= 0 THEN z6 ELSE 0 - z6
        e    == ExpFixed((mag * Precision) \div den)
        fine == 100 * Precision
        low  == (fine * Precision) \div (Precision + e)
    IN  IF z6 >= 0 THEN <<fine - low, fine>> ELSE <<low, fine>>

\* alpha = 1 / (1 + np.exp(-12 * (t - 0.5))); the quotient is kept to two
\* more decimal places than Precision; for t >= 0.5 it is 1 - 1 / (1 + exp(+..))
SigmoidAlpha(num, den) ==
    LET z12  == 12 * num - 6 * den          \* 12 * (t - 0.5) * den
        mag  == IF z12 >= 0 THEN z12 ELSE 0 - z12
        e    == ExpFixed((mag * Precision) \div den)
        fine == 100 * Precision
        low  == (fine * Precision) \div (Precision + e)
    IN  IF z12 >= 0 THEN <<fine - low, fine>> ELSE <<low, fine>>

\* mutant: an unknown method name falls back to ease_in_out
CurveAlpha_DefaultEase(method, num, den) ==
    CASE method = "linear"      -> LinearAlpha(num, den)
      [] method = "ease_in_out" -> EaseInOutAlpha(num, den)
      [] method = "cosine"      -> CosineAlpha(num, den)
      [] method = "sigmoid"     -> SigmoidAlpha(num, den)
      [] OTHER                  -> EaseInOutAlpha(num, den)

\* the if/elif chain over the method name; an unknown name gives alpha = t
CurveAlpha(method, num, den) ==
    CASE method = "linear"      -> LinearAlpha(num, den)
      [] method = "ease_in_out" -> EaseInOutAlpha(num, den)
      [] method = "cosine"      -> CosineAlpha(num, den)
      [] method = "sigmoid"     -> SigmoidAlpha(num, den)
      [] OTHER                  -> LinearAlpha(num, den)

\* a float product or quotient x / d (x >= 0), rounded to the nearest sample step
RoundDiv(x, d) == (2 * x + d) \div (2 * d)

\* mutant: the two weights exchanged
\* mutant: the second frame enters with half its weight
BlendFrames_HalfWeight(fa, fb, alpha) ==
    RoundDiv(fa * (alpha[2] - alpha[1]), alpha[2]) + RoundDiv(fb * alpha[1], 2 * alpha[2])

BlendFrames_Swapped(fa, fb, alpha) ==
    RoundDiv(fa * alpha[1], alpha[2]) + RoundDiv(fb * (alpha[2] - alpha[1]), alpha[2])

\* blended = frame_a * (1 - alpha) + frame_b * alpha: each product is rounded,
\* then the two are added
BlendFrames(fa, fb, alpha) ==
    RoundDiv(fa * (alpha[2] - alpha[1]), alpha[2]) + RoundDiv(fb * alpha[1], alpha[2])

---------------------------------------------------------------------------
(* The pure functions of the stitching engine.                             *)

\* interpolate_frames: num_frames frames between frame_a and frame_b,
\* frame i (1..num_frames) at t = i / (num_frames + 1)
interpolate_frames(frame_a, frame_b, num_frames, method) ==
    IF num_frames <= 0
    THEN <<>>
    ELSE [i \in 1..num_frames |->
            BlendFrames(frame_a, frame_b, CurveAlpha(method, i, num_frames + 1))]

\* mutant: the faded frames of seq_b are kept after the crossfade
crossfade_sequences_KeepsFadeB(seq_a, seq_b, crossfade, method) ==
    LET len_a == Len(seq_a)
        cf    == Min(crossfade, Min(len_a, Len(seq_b)))
    IN  IF cf <= 0
        THEN seq_a \o seq_b
        ELSE Take(seq_a, len_a - cf)
             \o [i \in 1..cf |->
                    BlendFrames(seq_a[len_a - cf + i], seq_b[i],
                                CurveAlpha(method, i, cf + 1))]
             \o seq_b

\* crossfade_sequences, on the frames of seq_a and seq_b
crossfade_sequences(seq_a, seq_b, crossfade, method) ==
    LET len_a == Len(seq_a)
        len_b == Len(seq_b)
        cf    == Min(crossfade, Min(len_a, len_b))
    IN  IF cf <= 0
        THEN seq_a \o seq_b
        ELSE
          LET pre_fade_a  == IF cf < len_a THEN Take(seq_a, len_a - cf) ELSE <<>>
              fade_a      == Drop(seq_a, len_a - cf)
              fade_b      == Take(seq_b, cf)
              post_fade_b == IF cf < len_b THEN Drop(seq_b, cf) ELSE <<>>
              crossfade_result ==
                  [i \in 1..cf |->
                      BlendFrames(fade_a[i], fade_b[i], CurveAlpha(method, i, cf + 1))]
              parts == pre_fade_a \o crossfade_result \o post_fade_b
          IN  IF Len(parts) > 0 THEN parts ELSE seq_a \o seq_b

\* (frame * 255).astype(np.uint8), resample, / 255.0: a uniform frame keeps
\* its 8-bit level, the fraction below one level is truncated
ResizeSample(v) == (v \div SubLevels) * SubLevels

\* mutant: video_b is returned as it is, whatever its shape
resize_video_to_match_AsIs(va, vb) == Returned(vb)

\* resize_video_to_match: video_b itself when the per-frame shapes are equal;
\* else every frame resampled to video_a's height and width.  torch.stack of
\* an empty list raises.
resize_video_to_match(va, vb) ==
    IF va.shape = vb.shape
    THEN Returned(vb)
    ELSE IF Len(vb.frames) = 0
    THEN Raised
    ELSE Returned(Video([h |-> va.shape.h, w |-> va.shape.w, c |-> vb.shape.c],
                        [i \in 1..Len(vb.frames) |-> ResizeSample(vb.frames[i])]))

\* mutant: the boundary frames of A and B are kept
InterpolationParts_KeepsBoundary(fa, fb, interpolated) == fa \o interpolated \o fb

\* the interpolation branch: A without its last frame, the interpolated
\* frames, B without its first frame
InterpolationParts(fa, fb, interpolated) ==
    Take(fa, Len(fa) - 1) \o interpolated \o Drop(fb, 1)

\* mutant: the zone frames that are not cross-blended are discarded
CrossfadeParts_DropsZone(fa, fb, overlap, crossfade, method) ==
    LET len_a == Len(fa)
        len_b == Len(fb)
        transition_start_a == Max(0, len_a - overlap)
        transition_end_b   == Min(overlap, len_b)
        overlap_a       == Drop(fa, transition_start_a)
        overlap_b       == Take(fb, transition_end_b)
        cf == Min(Min(crossfade, overlap), Min(Len(overlap_a), Len(overlap_b)))
    IN  Take(fa, transition_start_a)
        \o [i \in 1..cf |->
               BlendFrames(overlap_a[Len(overlap_a) - cf + i], overlap_b[i],
                           CurveAlpha(method, i, cf + 1))]
        \o Drop(fb, transition_end_b)

\* mutant: the zone is sized by crossfade_frames instead of overlap_frames
CrossfadeParts_ZoneByCrossfade(fa, fb, overlap, crossfade, method) ==
    LET len_a == Len(fa)
        len_b == Len(fb)
        transition_start_a == Max(0, len_a - crossfade)
        transition_end_b   == Min(crossfade, len_b)
    IN  Take(fa, transition_start_a)
        \o crossfade_sequences(Drop(fa, transition_start_a), Take(fb, transition_end_b),
                               crossfade, method)
        \o Drop(fb, transition_end_b)

\* the crossfade branch: the part of A before the zone, the crossfaded zone,
\* the part of B after the zone
CrossfadeParts(fa, fb, overlap, crossfade, method) ==
    LET len_a == Len(fa)
        len_b == Len(fb)
        transition_start_a == Max(0, len_a - overlap)
        transition_end_b   == Min(overlap, len_b)
        pre_transition  == Take(fa, transition_start_a)
        overlap_a       == Drop(fa, transition_start_a)
        overlap_b       == Take(fb, transition_end_b)
        post_transition == Drop(fb, transition_end_b)
        transition == crossfade_sequences(overlap_a, overlap_b,
                                          Min(crossfade, overlap), method)
    IN  pre_transition \o transition \o post_transition

\* stitch_two_videos.  video_a[-1] and video_b[0] raise IndexError on a
\* tensor of zero frames; torch.cat of no parts raises, and so do the frame
\* arithmetic and torch.cat on frames of two shapes.
stitch_two_videos(va, vb, overlap, crossfade, interp, method) ==
    LET resized == resize_video_to_match(va, vb)
    IN  IF resized.raised THEN Raised
        ELSE
          LET fa == va.frames
              fb == resized.value.frames
          IN  IF Len(fa) = 0 \/ Len(fb) = 0 THEN Raised
              ELSE IF resized.value.shape # va.shape THEN Raised
              ELSE
                LET last_frame_a  == fa[Len(fa)]
                    first_frame_b == fb[1]
                    interpolated  == interpolate_frames(last_frame_a, first_frame_b,
                                                        interp, method)
                    frames ==
                        IF interp > 0 /\ Len(interpolated) > 0
                        THEN InterpolationParts(fa, fb, interpolated)
                        ELSE IF crossfade > 0
                        THEN CrossfadeParts(fa, fb, overlap, crossfade, method)
                        ELSE fa \o fb
                IN  IF Len(frames) = 0 THEN Raised
                    ELSE Returned(Video(va.shape, frames))

---------------------------------------------------------------------------
(* Chain stitch and seamless loop.                                         *)

\* an optional input is None (<<>>) or a tensor (<<v>>)
None == <<>>
Some(v) == <<v>>

\* mutant: only None is skipped, a clip of zero frames is kept
IsPresent_NotNone(slot) == slot # None

\* "vid is not None and vid.shape[0] > 0"
IsPresent(slot) == slot # None /\ Len(slot[1].frames) > 0

\* all_videos: video_1, video_2 and the present optional clips, in slot order
RECURSIVE CollectOptional(_)
CollectOptional(slots) ==
    IF slots = <<>> THEN <<>>
    ELSE (IF IsPresent(Head(slots)) THEN <<Head(slots)[1]>> ELSE <<>>)
         \o CollectOptional(Tail(slots))

all_videos(slots) ==
    <<slots[1][1], slots[2][1]>> \o CollectOptional(Drop(slots, 2))

\* the loop "for next_video in all_videos[1:]": the results so far, first
\* all_videos[0], then one per stitch; an exception ends the loop
RECURSIVE StitchLoop(_, _, _, _, _, _)
StitchLoop(done, rest, overlap, crossfade, interp, method) ==
    \* d \in {done} binds the value of done, so that it is computed once
    CHOOSE out \in
        { IF rest = <<>> \/ d[Len(d)].raised THEN d
          ELSE StitchLoop(
                 Append(d, stitch_two_videos(d[Len(d)].value, Head(rest), overlap,
                                             crossfade, interp, method)),
                 Tail(rest), overlap, crossfade, interp, method) : d \in {done} } : TRUE

\* mutant: the height result.shape[1] is reported
TotalFrames_Height(v) == v.shape.h

\* total_frames = result.shape[0]
TotalFrames(v) == Len(v.frames)

\* mutant: clamped to the whole length
ClampBlend_Len(num_frames, requested) == Min(requested, num_frames)

\* mutant: the half rounded up
ClampBlend_Ceil(num_frames, requested) == Min(requested, (num_frames + 1) \div 2)

\* VideoLoopSeamless.execute: blend_frames = min(blend_frames, num_frames // 2)
ClampBlend(num_frames, requested) == Min(requested, num_frames \div 2)

\* the loop building `blended`: frame i (0-based) at t = i / (blend_frames - 1),
\* end_region[i] * (1 - alpha) + start_region[i] * alpha; a curve name other
\* than linear, ease_in_out and cosine gives alpha = t
LoopAlpha(curve, num, den) ==
    CASE curve = "linear"      -> LinearAlpha(num, den)
      [] curve = "ease_in_out" -> EaseInOutAlpha(num, den)
      [] curve = "cosine"      -> CosineAlpha(num, den)
      [] OTHER                 -> LinearAlpha(num, den)

\* mutant: blends the start frame towards the end frame
LoopBlended_TowardsEnd(frames, k, curve) ==
    LET start_region == Take(frames, k)
        end_region   == Drop(frames, Len(frames) - k)
    IN  [i \in 1..k |->
            BlendFrames(start_region[i], end_region[i], LoopAlpha(curve, i - 1, k - 1))]

LoopBlended(frames, k, curve) ==
    LET start_region == Take(frames, k)
        end_region   == Drop(frames, Len(frames) - k)
    IN  [i \in 1..k |->
            BlendFrames(end_region[i], start_region[i], LoopAlpha(curve, i - 1, k - 1))]

\* the early return: "if blend_frames < 2: return video"
LoopSkips(k) == k < 2

\* mutant: the middle frames are left out
LoopResult_NoMiddle(frames, k, blended_frames) == Take(frames, k) \o blended_frames

\* start_region + middle + blended
LoopResult(frames, k, blended_frames) ==
    LET start_region == Take(frames, k)
        middle       == SubSeq(frames, k + 1, Len(frames) - k)
    IN  IF Len(middle) > 0
        THEN start_region \o middle \o blended_frames
        ELSE start_region \o blended_frames

\* VideoLoopSeamless.execute as a function of its inputs
VideoLoopSeamless(v, requested, curve) ==
    LET k == ClampBlend(Len(v.frames), requested)
    IN  IF LoopSkips(k)
        THEN Returned(v)
        ELSE Returned(Video(v.shape,
                            LoopResult(v.frames, k, LoopBlended(v.frames, k, curve))))

---------------------------------------------------------------------------
(* VideoFrameBlender.                                                      *)

BlendModes == {"mix", "add", "multiply", "screen", "overlay"}

\* mutant: no clamping
ClampSample_Open(v) == v

\* torch.clamp(x, 0, 1)
ClampSample(v) == Max(0, Min(Scale, v))

\* mutant: mode mix computed as mode add
BlendValue_MixAsAdd(mode, a, b, factor) ==
    LET bw   == RoundDiv(b * factor[1], factor[2])
        rest == RoundDiv(Scale * (factor[2] - factor[1]), factor[2])
    IN  CASE mode = "mix"      -> ClampSample(a + bw)
          [] mode = "add"      -> ClampSample(a + bw)
          [] mode = "multiply" -> RoundDiv(a * (bw + rest), Scale)
          [] mode = "screen"   -> Scale - RoundDiv((Scale - a) * (Scale - bw), Scale)
          [] mode = "overlay"  ->
                IF 2 * a < Scale
                THEN RoundDiv(RoundDiv(2 * a * b, Scale) * factor[1], factor[2])
                ELSE Scale - RoundDiv(2 * (Scale - a) * (Scale - bw), Scale)
          [] OTHER             -> BlendFrames(a, b, factor)

\* one sample of `result` before the final clamp, per blend_mode; factor is
\* blend_factor = <<num, den>>; every float product is rounded on its own
BlendValue(mode, a, b, factor) ==
    LET bw   == RoundDiv(b * factor[1], factor[2])
        rest == RoundDiv(Scale * (factor[2] - factor[1]), factor[2])
    IN  CASE mode = "mix"      -> BlendFrames(a, b, factor)
          [] mode = "add"      -> ClampSample(a + bw)
          [] mode = "multiply" -> RoundDiv(a * (bw + rest), Scale)
          [] mode = "screen"   -> Scale - RoundDiv((Scale - a) * (Scale - bw), Scale)
          [] mode = "overlay"  ->
                IF 2 * a < Scale
                THEN RoundDiv(RoundDiv(2 * a * b, Scale) * factor[1], factor[2])
                ELSE Scale - RoundDiv(2 * (Scale - a) * (Scale - bw), Scale)
          [] OTHER             -> BlendFrames(a, b, factor)

\* the two inputs cut to min_frames
BlendOperandA(fa, fb) ==
    Video(fa.shape, Take(fa.frames, Min(Len(fa.frames), Len(fb.frames))))
BlendOperandB(fa, fb) ==
    Video(fb.shape, Take(fb.frames, Min(Len(fa.frames), Len(fb.frames))))

\* VideoFrameBlender.execute as a function of its inputs
VideoFrameBlender(fa, fb, factor, mode) ==
    LET a  == BlendOperandA(fa, fb)
        rb == resize_video_to_match(a, BlendOperandB(fa, fb))
    IN  IF rb.raised
        THEN Raised
        ELSE Returned(Video(a.shape,
                 [i \in 1..Len(a.frames) |->
                     ClampSample(BlendValue(mode, a.frames[i], rb.value.frames[i], factor))]))

---------------------------------------------------------------------------
(* The scraping session of src/web_scraper_node.py.  start_scraping is a   *)
(* coroutine run as a task on the server's event loop; cancel_scraping and *)
(* get_scraping_status are plain functions called from request handlers on *)
(* the same loop, so they run only while the task has not started, is      *)
(* suspended in an await (asyncio.sleep) or has returned.  One session id  *)
(* is modelled: the start route draws a fresh id for every task.           *)

SessionId == "session-1"

\* _scraping_sessions = {}
NoSessions == [id \in {} |-> 0]

\* the session get_scraping_session creates; errors is len(session["errors"])
NewSession ==
    [status |-> "idle", progress |-> 0, total_images |-> 0, scraped_images |-> 0,
     errors |-> 0]

get_scraping_session(sessions, id) ==
    IF id \in DOMAIN sessions THEN sessions ELSE sessions @@ (id :> NewSession)

\* "while not image_url and pages_tried < 10"
MaxPagesTried == 10

\* mutant: the progress is not scaled by max_images
IterationProgress_Unscaled(index, total) == 10 + index * 80

\* session["progress"] = 10 + int((i / max_images) * 80)
IterationProgress(index, total) == 10 + (index * 80) \div total

\* the positions at which the task is not running: not yet started, in
\* "await asyncio.sleep(0.2)", in "await asyncio.sleep(0.5)", returned
YieldPoints == {"pending", "wait_page", "wait_next", "returned"}

---------------------------------------------------------------------------
(* The image library of src/library_manager.py: the tables images and      *)
(* machine_names of library.db.  A table is the set of its rows; of a row  *)
(* of images the columns id, filepath and category are kept.               *)

\* INTEGER PRIMARY KEY AUTOINCREMENT: one more than the largest id given
\* (no row is deleted here)
NextRowId(table) == Cardinality(table) + 1

\* the uniqueness constraints of the tables: images has the primary key and
\* "filepath TEXT NOT NULL UNIQUE", machine_names only its primary key
ImagesUnique       == { {"id"}, {"filepath"} }
MachineNamesUnique == { {"id"} }

\* a row that agrees with an existing row on all columns of a unique key
Conflicts(table, row, unique) ==
    \E r \in table, key \in unique : \A column \in key : r[column] = row[column]

\* INSERT OR IGNORE: the row is skipped when it breaks a uniqueness constraint
InsertOrIgnore(table, row, unique) ==
    IF Conflicts(table, row, unique) THEN table ELSE table \cup {row}

\* platform.node()
PlatformNode == "localhost"

\* "SELECT id FROM images WHERE filepath = ?"
Existing(table, image_path) == { r \in table : r.filepath = image_path }

\* the tables after the body of add_image_to_library has committed
LibraryAfterAdd(tables, image_path, category, machine_name) ==
    LET existing == Existing(tables.images, image_path)
        image_id == IF existing # {} THEN (CHOOSE r \in existing : TRUE).id
                    ELSE NextRowId(tables.images)
        rows     == IF existing # {}
                    THEN { IF r.id = image_id THEN [r EXCEPT !.category = category] ELSE r :
                             r \in tables.images }
                    ELSE tables.images
                         \cup { [id |-> image_id, filepath |-> image_path,
                                 category |-> category] }
        machine  == IF machine_name = "" THEN PlatformNode ELSE machine_name
    IN  [images |-> rows,
         machine_names |->
             IF machine # ""
             THEN InsertOrIgnore(tables.machine_names,
                                 [id |-> NextRowId(tables.machine_names),
                                  image_id |-> image_id, machine_name |-> machine],
                                 MachineNamesUnique)
             ELSE tables.machine_names]

---------------------------------------------------------------------------
(* Inputs.                                                                 *)

\* a clip of n frames: "flat" repeats base, "ramp" steps upward from base
ClipFrames(kind, base, n) ==
    [i \in 1..n |-> IF kind = "flat" THEN base ELSE base + 7 * (i - 1)]

ClipKinds == {"flat", "ramp"}

\* the clips drawn for one input: every length 0..MaxLen, both kinds, every shape
Clips(base) ==
    { Video(s, ClipFrames(k, base, n)) : s \in Shapes, k \in ClipKinds, n \in 0..MaxLen }

\* the end-to-end scenario: 10 gray frames, 10 white frames, overlap 4,
\* crossfade 4, no interpolation, linear
ScenarioA == Video(BaseShape, [i \in 1..10 |-> Gray])
ScenarioB == Video(BaseShape, [i \in 1..10 |-> White])
Scenario == [a |-> ScenarioA, b |-> ScenarioB, overlap |-> 4, crossfade |-> 4,
             interp |-> 0, method |-> "linear"]

PairInputs ==
    { [a |-> a, b |-> b, overlap |-> ov, crossfade |-> cf, interp |-> n, method |-> m] :
        a \in Clips(Gray \div 4), b \in Clips(Gray + 3),
        ov \in MinOverlap..MaxTransition, cf \in 0..MaxTransition,
        n \in 0..MaxInterp, m \in Methods }
    \cup {Scenario}

\* chain stitch: video_1 has the reference shape, the other clips any shape;
\* a clip is empty, one frame long or MaxChainLen frames long
ChainClips(slot, shapes) ==
    { Video(sh, ClipFrames("ramp", 40 * slot + 1, n)) :
        sh \in shapes, n \in {0, 1, MaxChainLen} }

ChainMethods == {"linear", "ease_in_out", "sigmoid"}

RECURSIVE OptionalSlots(_)
OptionalSlots(slot) ==
    IF slot > 2 + MaxOptional THEN {<<>>}
    ELSE { <<o>> \o more :
             o \in {None} \cup { Some(v) : v \in ChainClips(slot, Shapes) },
             more \in OptionalSlots(slot + 1) }

CurveSites == {"stitch", "loop"}

LoopCurves == {"linear", "ease_in_out", "cosine", "sigmoid"}

LoopInputs ==
    { [video |-> Video(BaseShape, ClipFrames(k, Gray \div 4, n)), blend |-> bf,
       curve |-> c] :
        k \in ClipKinds, n \in 0..MaxLoopLen, bf \in 0..MaxBlend, c \in LoopCurves }

\* blender inputs: clips of 0..MaxBlendLen frames whose brightness steps
\* through the levels 0, 1/BlendLevels, .., 1 from a starting level
BlendRamp(level, n) ==
    [i \in 1..n |-> (((level + i - 1) % (BlendLevels + 1)) * Scale) \div BlendLevels]

BlendClips ==
    { Video(s, BlendRamp(level, n)) :
        s \in Shapes, level \in 0..BlendLevels, n \in 0..MaxBlendLen }

BlendFactors == { <<n, FactorSteps>> : n \in 0..FactorSteps }

\* the schema's modes and a name outside them
ModeNames == BlendModes \cup {"dissolve"}

\* library inputs: image files, categories, machine names ("" = not given)
ImagePaths   == {"/library/a.jpg", "/library/b.jpg"}
Categories   == {"nature", "animals"}
MachineNames == {"", "render-01"}

---------------------------------------------------------------------------
(* The state machine.                                                      *)

Idle ==
    /\ video_a = NoVideo
    /\ video_b = NoVideo
    /\ overlap_frames = MinOverlap
    /\ crossfade_frames = 0
    /\ interpolation_frames = 0
    /\ interpolation_method = "linear"
    /\ result = Returned(NoVideo)
    /\ videos = <<>>
    /\ partials = <<>>
    /\ total_frames = 0
    /\ video = NoVideo
    /\ blend_frames = 0
    /\ blend_curve = "linear"
    /\ clamped_frames = 0
    /\ blended = <<>>
    /\ curve_site = "stitch"
    /\ curve_method = "linear"
    /\ curve_t = <<0, 1>>
    /\ curve_alpha = <<0, 1>>
    /\ frames_a = NoVideo
    /\ frames_b = NoVideo
    /\ blend_factor = <<0, 1>>
    /\ blend_mode = "mix"
    /\ resized_b = Returned(NoVideo)

\* no session exists and the start_scraping task has been created
ScrapeInit ==
    /\ scraping_sessions = NoSessions
    /\ scrape_pc = "pending"
    /\ max_images = 0
    /\ image_index = 0
    /\ scraped_count = 0
    /\ pages_tried = 0
    /\ reported = "nothing"

\* the tables as _init_database creates them
LibraryInit ==
    /\ images = {}
    /\ machine_names = {}
    /\ library_calls = 0
    /\ added = FALSE

Init ==
    /\ ScrapeInit
    /\ LibraryInit
    /\ pc = "idle"
    /\ Idle

\* VideoStitchInterpolator.execute: one call of stitch_two_videos
StitchPair ==
    /\ pc = "idle"
    /\ \E in \in PairInputs :
        /\ video_a' = in.a
        /\ video_b' = in.b
        /\ overlap_frames' = in.overlap
        /\ crossfade_frames' = in.crossfade
        /\ interpolation_frames' = in.interp
        /\ interpolation_method' = in.method
        /\ result' = stitch_two_videos(in.a, in.b, in.overlap, in.crossfade,
                                       in.interp, in.method)
    /\ pc' = "stitched"
    /\ UNCHANGED <<chainVars, loopVars, curveVars, blendVars, scrapeVars, libraryVars>>

\* VideoStitchMultiple.execute
ChainStitch ==
    /\ pc = "idle"
    /\ \E v1 \in ChainClips(1, {BaseShape}), v2 \in ChainClips(2, Shapes),
          opt \in OptionalSlots(3),
          ov \in MinOverlap..MaxChainTransition, cf \in 0..MaxChainTransition,
          n \in 0..MaxChainInterp, m \in ChainMethods :
        \E slots \in { <<Some(v1), Some(v2)>> \o opt } :
        \E clips \in { all_videos(slots) } :
        \E runs \in { StitchLoop(<<Returned(clips[1])>>, Tail(clips), ov, cf, n, m) } :
            /\ videos' = slots
            /\ overlap_frames' = ov
            /\ crossfade_frames' = cf
            /\ interpolation_frames' = n
            /\ interpolation_method' = m
            /\ partials' = runs
            /\ result' = runs[Len(runs)]
            /\ total_frames' = IF runs[Len(runs)].raised THEN 0
                               ELSE TotalFrames(runs[Len(runs)].value)
    /\ pc' = "chained"
    /\ UNCHANGED <<stitchVars, loopVars, curveVars, blendVars, scrapeVars, libraryVars>>

\* VideoLoopSeamless.execute
LoopSeamless ==
    /\ pc = "idle"
    /\ \E in \in LoopInputs :
        LET k == ClampBlend(Len(in.video.frames), in.blend)
            b == IF LoopSkips(k) THEN <<>> ELSE LoopBlended(in.video.frames, k, in.curve)
        IN  /\ video' = in.video
            /\ blend_frames' = in.blend
            /\ blend_curve' = in.curve
            /\ clamped_frames' = k
            /\ blended' = b
            /\ result' = VideoLoopSeamless(in.video, in.blend, in.curve)
    /\ pc' = "looped"
    /\ UNCHANGED <<stitchVars, configVars, chainVars, curveVars, blendVars, scrapeVars, libraryVars>>

BlendPair ==
    /\ pc = "idle"
    /\ \E fa \in BlendClips, fb \in BlendClips, f \in BlendFactors, m \in ModeNames :
        /\ frames_a' = fa
        /\ frames_b' = fb
        /\ blend_factor' = f
        /\ blend_mode' = m
        /\ resized_b' = resize_video_to_match(BlendOperandA(fa, fb), BlendOperandB(fa, fb))
        /\ result' = VideoFrameBlender(fa, fb, f, m)
    /\ pc' = "blended"
    /\ UNCHANGED <<stitchVars, configVars, chainVars, loopVars, curveVars, scrapeVars, libraryVars>>

\* the curve code alone: one evaluation of the if/elif chain of
\* interpolate_frames and crossfade_sequences ("stitch") or of
\* VideoLoopSeamless.execute ("loop") at a position t = num / den in [0, 1]
EvalCurve ==
    /\ pc = "idle"
    /\ \E site \in CurveSites, m \in Methods, den \in 1..MaxCurveSteps :
        \E num \in 0..den :
            /\ curve_site' = site
            /\ curve_method' = m
            /\ curve_t' = <<num, den>>
            /\ curve_alpha' = IF site = "loop" THEN LoopAlpha(m, num, den)
                                               ELSE CurveAlpha(m, num, den)
    /\ pc' = "evaluated"
    /\ UNCHANGED <<stitchVars, configVars, result, chainVars, loopVars, blendVars, scrapeVars, libraryVars>>

\* the nodes are stateless: after a call the engine is ready for the next one
Return ==
    /\ pc # "idle"
    /\ pc' = "idle"
    /\ video_a' = NoVideo
    /\ video_b' = NoVideo
    /\ overlap_frames' = MinOverlap
    /\ crossfade_frames' = 0
    /\ interpolation_frames' = 0
    /\ interpolation_method' = "linear"
    /\ result' = Returned(NoVideo)
    /\ videos' = <<>>
    /\ partials' = <<>>
    /\ total_frames' = 0
    /\ video' = NoVideo
    /\ blend_frames' = 0
    /\ blend_curve' = "linear"
    /\ clamped_frames' = 0
    /\ blended' = <<>>
    /\ curve_site' = "stitch"
    /\ curve_method' = "linear"
    /\ curve_t' = <<0, 1>>
    /\ curve_alpha' = <<0, 1>>
    /\ frames_a' = NoVideo
    /\ frames_b' = NoVideo
    /\ blend_factor' = <<0, 1>>
    /\ blend_mode' = "mix"
    /\ resized_b' = Returned(NoVideo)
    /\ UNCHANGED <<scrapeVars, libraryVars>>

NodeVars == <<pc, stitchVars, configVars, result, chainVars, loopVars, curveVars, blendVars>>

HasSession == SessionId \in DOMAIN scraping_sessions
Session == scraping_sessions[SessionId]
Update(session) == scraping_sessions' = [scraping_sessions EXCEPT ![SessionId] = session]

\* start_scraping up to the loop: the session is created and reset; a
\* failing import or mkdir is caught by the outer except
StartScraping ==
    /\ scrape_pc = "pending"
    /\ \E n \in 0..MaxImages, setup_ok \in BOOLEAN :
        LET session == get_scraping_session(scraping_sessions, SessionId)[SessionId]
            reset   == [session EXCEPT !.status = "scraping", !.progress = 0,
                                       !.total_images = n, !.scraped_images = 0,
                                       !.errors = 0]
        IN  /\ max_images' = n
            /\ scraping_sessions' =
                  [get_scraping_session(scraping_sessions, SessionId) EXCEPT ![SessionId] =
                      IF setup_ok
                      THEN [reset EXCEPT !.progress = 10]
                      ELSE [reset EXCEPT !.status = "error", !.errors = 1]]
            /\ scrape_pc' = IF setup_ok THEN "loop" ELSE "returned"
    /\ image_index' = 0
    /\ scraped_count' = 0
    /\ pages_tried' = 0
    /\ UNCHANGED reported
    /\ UNCHANGED <<NodeVars, libraryVars>>

\* "for i in range(max_images)": the cancel check and the progress update
IterationStart ==
    /\ scrape_pc = "loop"
    /\ image_index < max_images
    /\ Session.status # "cancelled"
    /\ Update([Session EXCEPT !.progress = IterationProgress(image_index, max_images)])
    /\ pages_tried' = 0
    /\ scrape_pc' = "fetch"
    /\ UNCHANGED <<max_images, image_index, scraped_count, reported>>
    /\ UNCHANGED <<NodeVars, libraryVars>>

\* get_image_url_from_api: a URL (break) or None (next page, then sleep)
FetchPage ==
    /\ scrape_pc = "fetch"
    /\ \E found \in BOOLEAN :
        IF found
        THEN /\ scrape_pc' = "download"
             /\ UNCHANGED pages_tried
        ELSE /\ scrape_pc' = "wait_page"
             /\ pages_tried' = pages_tried + 1
    /\ UNCHANGED <<scraping_sessions, max_images, image_index, scraped_count, reported>>
    /\ UNCHANGED <<NodeVars, libraryVars>>

\* after the sleep: the while condition; "if not image_url: ... continue"
ResumeFetch ==
    /\ scrape_pc = "wait_page"
    /\ IF pages_tried < MaxPagesTried
       THEN /\ scrape_pc' = "fetch"
            /\ UNCHANGED <<scraping_sessions, image_index>>
       ELSE /\ Update([Session EXCEPT !.errors = @ + 1])
            /\ image_index' = image_index + 1
            /\ scrape_pc' = "loop"
    /\ UNCHANGED <<max_images, scraped_count, pages_tried, reported>>
    /\ UNCHANGED <<NodeVars, libraryVars>>

\* the download and add_image_to_library: added, failed (an error is
\* recorded, then the sleep) or an exception (recorded, continue)
Download ==
    /\ scrape_pc = "download"
    /\ \E outcome \in {"added", "failed", "exception"} :
        CASE outcome = "added" ->
               /\ scraped_count' = scraped_count + 1
               /\ Update([Session EXCEPT !.scraped_images = scraped_count + 1])
               /\ scrape_pc' = "wait_next"
               /\ UNCHANGED image_index
          [] outcome = "failed" ->
               /\ Update([Session EXCEPT !.errors = @ + 1])
               /\ scrape_pc' = "wait_next"
               /\ UNCHANGED <<scraped_count, image_index>>
          [] outcome = "exception" ->
               /\ Update([Session EXCEPT !.errors = @ + 1])
               /\ image_index' = image_index + 1
               /\ scrape_pc' = "loop"
               /\ UNCHANGED scraped_count
    /\ UNCHANGED <<max_images, pages_tried, reported>>
    /\ UNCHANGED <<NodeVars, libraryVars>>

\* after "await asyncio.sleep(0.5)": the next iteration
ResumeNext ==
    /\ scrape_pc = "wait_next"
    /\ image_index' = image_index + 1
    /\ scrape_pc' = "loop"
    /\ UNCHANGED <<scraping_sessions, max_images, scraped_count, pages_tried, reported>>
    /\ UNCHANGED <<NodeVars, libraryVars>>

\* the loop has ended, by exhaustion or by break: lines 620-630
FinishScraping ==
    /\ scrape_pc = "loop"
    /\ image_index >= max_images \/ Session.status = "cancelled"
    /\ Update([Session EXCEPT !.status = "completed", !.progress = 100])
    /\ scrape_pc' = "returned"
    /\ UNCHANGED <<max_images, image_index, scraped_count, pages_tried, reported>>
    /\ UNCHANGED <<NodeVars, libraryVars>>

CancelScraping ==
    /\ scrape_pc \in YieldPoints
    /\ IF HasSession
       THEN Update([Session EXCEPT !.status = "cancelled"])
       ELSE UNCHANGED scraping_sessions
    /\ UNCHANGED <<scrape_pc, max_images, image_index, scraped_count, pages_tried, reported>>
    /\ UNCHANGED <<NodeVars, libraryVars>>

GetScrapingStatus ==
    /\ scrape_pc \in YieldPoints
    /\ reported' = IF HasSession THEN Session.status ELSE "not_found"
    /\ UNCHANGED <<scraping_sessions, scrape_pc, max_images, image_index, scraped_count,
                   pages_tried>>
    /\ UNCHANGED <<NodeVars, libraryVars>>

NextScrape ==
    \/ StartScraping \/ IterationStart \/ FetchPage \/ ResumeFetch \/ Download
    \/ ResumeNext \/ FinishScraping \/ CancelScraping \/ GetScrapingStatus

\* add_image_to_library: False when the file is missing or reading it
\* raises, else the tables are updated and True is returned
AddImageToLibrary ==
    /\ library_calls < MaxCalls
    /\ \E image_path \in ImagePaths, category \in Categories,
          machine_name \in MachineNames, file_exists \in BOOLEAN, readable \in BOOLEAN :
        IF file_exists /\ readable
        THEN LET after == LibraryAfterAdd([images |-> images,
                                           machine_names |-> machine_names],
                                          image_path, category, machine_name)
             IN  /\ images' = after.images
                 /\ machine_names' = after.machine_names
                 /\ added' = TRUE
        ELSE /\ added' = FALSE
             /\ UNCHANGED <<images, machine_names>>
    /\ library_calls' = library_calls + 1
    /\ UNCHANGED <<NodeVars, scrapeVars>>

NextLibrary == AddImageToLibrary

NextStitch == StitchPair \/ Return
NextChain  == ChainStitch \/ Return
NextLoop   == LoopSeamless \/ Return
NextCurve  == EvalCurve \/ Return
NextBlend  == BlendPair \/ Return
NextFallback == StitchPair \/ LoopSeamless \/ BlendPair \/ Return
Next       == StitchPair \/ ChainStitch \/ LoopSeamless \/ EvalCurve \/ BlendPair \/ Return
                 \/ NextScrape \/ NextLibrary

SpecStitch == Init /\ [][NextStitch]_vars
SpecChain  == Init /\ [][NextChain]_vars
SpecLoop   == Init /\ [][NextLoop]_vars
SpecCurve  == Init /\ [][NextCurve]_vars
SpecBlend  == Init /\ [][NextBlend]_vars
SpecFallback == Init /\ [][NextFallback]_vars
SpecScrape == Init /\ [][NextScrape]_vars
SpecLibrary == Init /\ [][NextLibrary]_vars
Spec       == Init /\ [][Next]_vars

---------------------------------------------------------------------------
(* Properties of stitch_two_videos (SpecStitch).                           *)

Stitched == pc = "stitched"
LenA == Len(video_a.frames)
LenB == Len(video_b.frames)
Frames == result.value.frames
InterpolationPath == interpolation_frames > 0
CrossfadePath == interpolation_frames = 0 /\ crossfade_frames > 0
ConcatPath == interpolation_frames = 0 /\ crossfade_frames = 0

\* C1: stitch_two_videos never raises and always returns a sequence, for all
\* inputs of length >= 0 and every overlap >= 1, crossfade >= 0 and
\* interpolation >= 0.
C1_NeverRaises == Stitched => ~result.raised

\* What does hold: a call raises exactly when video_a or video_b has no frames.
StitchRaisesOnlyOnEmpty ==
    Stitched => (result.raised <=> (LenA = 0 \/ LenB = 0))

\* C2: with crossfade_frames = 0 and interpolation_frames = 0 the call returns
\* exactly len(a) + len(b) frames, a followed by b, every frame unchanged.
C2_Concatenation ==
    (Stitched /\ ConcatPath) =>
        /\ ~result.raised
        /\ Len(Frames) = LenA + LenB
        /\ Frames = video_a.frames \o video_b.frames

\* What does hold: the same for non-empty clips of one shape.
ConcatenationOfNonEmpty ==
    (Stitched /\ ConcatPath /\ LenA > 0 /\ LenB > 0 /\ video_a.shape = video_b.shape) =>
        /\ ~result.raised
        /\ Frames = video_a.frames \o video_b.frames

\* C3: with interpolation_frames = n > 0 the call returns exactly
\* len(a) - 1 + n + len(b) - 1 frames, for every overlap, crossfade and method.
C3_InterpolationCount ==
    (Stitched /\ InterpolationPath) =>
        /\ ~result.raised
        /\ Len(Frames) = LenA - 1 + interpolation_frames + LenB - 1

\* What does hold: the same for non-empty clips.
InterpolationCountOfNonEmpty ==
    (Stitched /\ InterpolationPath /\ LenA > 0 /\ LenB > 0) =>
        /\ ~result.raised
        /\ Len(Frames) = LenA - 1 + interpolation_frames + LenB - 1

IsScenario ==
    /\ video_a = ScenarioA
    /\ video_b = ScenarioB
    /\ overlap_frames = Scenario.overlap
    /\ crossfade_frames = Scenario.crossfade
    /\ interpolation_frames = Scenario.interp
    /\ interpolation_method = Scenario.method

\* C4 as stated: 10 gray frames stitched with 10 white frames, overlap 4,
\* crossfade 4, interpolation 0, linear, yield 20 frames in total.
C4_ScenarioYields20 ==
    (Stitched /\ IsScenario) => (~result.raised /\ Len(Frames) = 20)

\* C4 as amended: the scenario yields 16 frames, 10 + 10 - 4: the four
\* crossfaded frames stand for four frames of each clip.
C4_ScenarioYields16 ==
    (Stitched /\ IsScenario) => (~result.raised /\ Len(Frames) = 16)

C4_Witness == Stitched /\ IsScenario /\ ~result.raised

\* C5: in the scenario, frames 7, 8, 9 and 10 of the result (1-indexed) have
\* strictly increasing brightness, each between the gray and the white value.
C5_ScenarioBrightness ==
    (Stitched /\ IsScenario) =>
        /\ ~result.raised
        /\ Len(Frames) >= 10
        /\ \A i \in 7..10 : Gray < Frames[i] /\ Frames[i] < White
        /\ \A i \in 7..9 : Frames[i] < Frames[i + 1]

C5_Witness ==
    Stitched /\ IsScenario /\ Len(Frames) >= 10 /\ Frames[6] = Gray /\ Frames[7] > Gray

\* C6: no frame outside the transition zone is dropped or altered.  In the
\* crossfade path the first len(a) - min(overlap, len(a)) frames of the result
\* are the first frames of a and the last len(b) - min(overlap, len(b)) frames
\* are the last frames of b; in the interpolation path only a's last frame and
\* b's first frame are removed.
C6_OutsideZoneKept ==
    Stitched =>
        /\ ~result.raised
        /\ CrossfadePath =>
             LET keep_a == LenA - Min(overlap_frames, LenA)
                 keep_b == LenB - Min(overlap_frames, LenB)
             IN  /\ Len(Frames) >= keep_a + keep_b
                 /\ Take(Frames, keep_a) = Take(video_a.frames, keep_a)
                 /\ Drop(Frames, Len(Frames) - keep_b) = Drop(video_b.frames, LenB - keep_b)
        /\ InterpolationPath =>
             /\ Len(Frames) = LenA - 1 + interpolation_frames + LenB - 1
             /\ Take(Frames, LenA - 1) = Take(video_a.frames, LenA - 1)
             /\ Drop(Frames, LenA - 1 + interpolation_frames) = Drop(video_b.frames, 1)

\* What does hold: the same for non-empty clips, with the frames of b as
\* resize_video_to_match returns them.
OutsideZoneKeptOfNonEmpty ==
    (Stitched /\ LenA > 0 /\ LenB > 0) =>
        LET fb == resize_video_to_match(video_a, video_b).value.frames
        IN  /\ ~result.raised
            /\ CrossfadePath =>
                 LET keep_a == LenA - Min(overlap_frames, LenA)
                     keep_b == LenB - Min(overlap_frames, LenB)
                 IN  /\ Len(Frames) >= keep_a + keep_b
                     /\ Take(Frames, keep_a) = Take(video_a.frames, keep_a)
                     /\ Drop(Frames, Len(Frames) - keep_b) = Drop(fb, LenB - keep_b)
            /\ InterpolationPath =>
                 /\ Len(Frames) = LenA - 1 + interpolation_frames + LenB - 1
                 /\ Take(Frames, LenA - 1) = Take(video_a.frames, LenA - 1)
                 /\ Drop(Frames, LenA - 1 + interpolation_frames) = Drop(fb, 1)

---------------------------------------------------------------------------
(* Properties of chain stitch (SpecChain).                                 *)

Chained == pc = "chained"

\* the optional clips that are supplied and hold at least one frame
SuppliedClips(slots) ==
    LET Supplied(slot) == slot # <<>> /\ Len(slot[1].frames) >= 1
        kept == SelectSeq(SubSeq(slots, 3, Len(slots)), Supplied)
    IN  [i \in 1..Len(kept) |-> kept[i][1]]

\* stitch(...stitch(stitch(clips[1], clips[2]), clips[3])..., clips[n])
RECURSIVE LeftFold(_, _, _, _, _)
LeftFold(clips, overlap, crossfade, interp, method) ==
    IF Len(clips) = 1 THEN Returned(clips[1])
    ELSE CHOOSE out \in
           { IF prev.raised THEN Raised
             ELSE stitch_two_videos(prev.value, clips[Len(clips)], overlap,
                                    crossfade, interp, method) :
               prev \in { LeftFold(Take(clips, Len(clips) - 1), overlap, crossfade,
                                   interp, method) } } : TRUE

\* C7: chain stitch skips every optional clip that is None or has zero frames:
\* the result equals the left fold of stitch_two_videos over video_1, video_2
\* and the present optional clips in slot order.
C7_SkipsAbsentClips ==
    Chained =>
        result = LeftFold(<<videos[1][1], videos[2][1]>> \o SuppliedClips(videos),
                          overlap_frames, crossfade_frames, interpolation_frames,
                          interpolation_method)

\* [A, B, None, D] with A, B, D non-empty, and [A, B, empty, D]
C7_Witness ==
    /\ Chained
    /\ ~result.raised
    /\ Len(videos) >= 4
    /\ videos[3] = None
    /\ videos[4] # None
    /\ Len(videos[4][1].frames) > 0
    /\ Len(partials) = 3

\* C8: total_frames equals the number of frames of the merged sequence
\* returned with it.
C8_TotalFramesIsLength ==
    (Chained /\ ~result.raised) => total_frames = Len(result.value.frames)

C8_Witness ==
    Chained /\ ~result.raised /\ Len(partials) >= 3 /\ total_frames >= 3

---------------------------------------------------------------------------
(* Properties of the seamless loop (SpecLoop).                             *)

Looped == pc = "looped"
NumFrames == Len(video.frames)
LoopGuard == blend_frames >= (NumFrames \div 2) * 2 + 1

\* C9 as stated: with k >= (len(seq)//2)*2 + 1 the loop returns seq unchanged,
\* same length and same content.
C9_GuardReturnsInput ==
    (Looped /\ LoopGuard) => result = Returned(video)

\* C9 as amended: with k >= (len(seq)//2)*2 + 1 the loop returns a sequence of
\* the same length as seq, and seq itself when len(seq) <= 3 (only then is the
\* clamped count len(seq)//2 below 2).
C9_GuardKeepsLength ==
    (Looped /\ LoopGuard) =>
        /\ ~result.raised
        /\ Len(result.value.frames) = NumFrames
        /\ NumFrames <= 3 => result = Returned(video)

C9_Witness ==
    /\ Looped
    /\ LoopGuard
    /\ NumFrames >= 4
    /\ Len(result.value.frames) = NumFrames
    /\ result.value.frames # video.frames

\* C10: the blend count is clamped to min(k, len(seq)//2); whenever the clamped
\* value is below 2 (in particular for every sequence of 0 to 3 frames) the
\* input is returned unchanged and nothing is blended.
C10_ShortLoopUnchanged ==
    Looped =>
        /\ clamped_frames = Min(blend_frames, NumFrames \div 2)
        /\ NumFrames <= 3 => clamped_frames < 2
        /\ clamped_frames < 2 => (result = Returned(video) /\ blended = <<>>)

C10_Witness ==
    /\ Looped
    /\ NumFrames = 3
    /\ blend_frames >= 2
    /\ clamped_frames = 1
    /\ result = Returned(video)

---------------------------------------------------------------------------
(* Properties of the easing curves (SpecCurve).                            *)

Evaluated == pc = "evaluated"
AtZero == curve_t[1] = 0
AtOne  == curve_t[1] = curve_t[2]
ExactCurves == {"linear", "ease_in_out", "cosine"}

\* C11: for linear, ease_in_out and cosine the weight is exactly 0 at t = 0
\* and exactly 1 at t = 1; for sigmoid it is about 0.00247 at t = 0 and about
\* 0.99753 at t = 1 (here: within 0.0001), strictly inside (0, 1).
C11_CurveBoundaries ==
    Evaluated =>
        /\ (curve_method \in ExactCurves /\ AtZero) => curve_alpha[1] = 0
        /\ (curve_method \in ExactCurves /\ AtOne) => curve_alpha[1] = curve_alpha[2]
        /\ (curve_method = "sigmoid" /\ curve_site = "stitch" /\ AtZero) =>
             /\ 0 < curve_alpha[1] /\ curve_alpha[1] < curve_alpha[2]
             /\ 237 * curve_alpha[2] <= 100000 * curve_alpha[1]
             /\ 100000 * curve_alpha[1] <= 257 * curve_alpha[2]
        /\ (curve_method = "sigmoid" /\ curve_site = "stitch" /\ AtOne) =>
             /\ 0 < curve_alpha[1] /\ curve_alpha[1] < curve_alpha[2]
             /\ 237 * curve_alpha[2] <= 100000 * (curve_alpha[2] - curve_alpha[1])
             /\ 100000 * (curve_alpha[2] - curve_alpha[1]) <= 257 * curve_alpha[2]

C11_Witness ==
    Evaluated /\ curve_method = "sigmoid" /\ curve_site = "stitch" /\ AtZero /\ curve_alpha[1] > 0

\* C12: every blend weight computed by the curve code lies in [0, 1], for every
\* method name, known or unknown, and every position t in [0, 1].
C12_WeightInUnitInterval ==
    Evaluated => (curve_alpha[2] > 0 /\ 0 <= curve_alpha[1] /\ curve_alpha[1] <= curve_alpha[2])

C12_Witness ==
    /\ Evaluated
    /\ curve_method = "ease_in_out"
    /\ 0 < curve_t[1] /\ curve_t[1] < curve_t[2]
    /\ 0 < curve_alpha[1] /\ curve_alpha[1] < curve_alpha[2]

---------------------------------------------------------------------------
(* Fallbacks for unknown names (SpecFallback).                             *)

Blended == pc = "blended"
KnownMethods == {"linear", "ease_in_out", "cosine", "sigmoid"}
KnownCurves  == {"linear", "ease_in_out", "cosine"}

\* C13: with an interpolation method, blend curve or blend mode outside the
\* known names the operation does exactly what it does with linear
\* (stitching: interpolation and crossfade; loop blending) or with mix (frame
\* blender): the same outcome, so the name itself never raises.
C13_UnknownNameIsDefault ==
    /\ (Stitched /\ interpolation_method \notin KnownMethods) =>
          result = stitch_two_videos(video_a, video_b, overlap_frames,
                                     crossfade_frames, interpolation_frames, "linear")
    /\ (Looped /\ blend_curve \notin KnownCurves) =>
          /\ ~result.raised
          /\ result = VideoLoopSeamless(video, blend_frames, "linear")
    /\ (Blended /\ blend_mode \notin BlendModes) =>
          result = VideoFrameBlender(frames_a, frames_b, blend_factor, "mix")

C13_Witness ==
    /\ Stitched
    /\ interpolation_method \notin KnownMethods
    /\ interpolation_frames > 1
    /\ ~result.raised
    /\ result # stitch_two_videos(video_a, video_b, overlap_frames,
                                  crossfade_frames, interpolation_frames, "ease_in_out")

---------------------------------------------------------------------------
(* Properties of VideoFrameBlender (SpecBlend).                            *)

SameShapeAndLength ==
    /\ frames_a.shape = frames_b.shape
    /\ Len(frames_a.frames) = Len(frames_b.frames)
FactorZero == blend_factor[1] = 0
FactorOne  == blend_factor[1] = blend_factor[2]
SelfMix == Blended /\ blend_mode = "mix" /\ frames_a = frames_b
Distance(x, y) == IF x >= y THEN x - y ELSE y - x

C15_MixEndpoints ==
    (Blended /\ blend_mode = "mix" /\ SameShapeAndLength) =>
        /\ FactorZero => result = Returned(frames_a)
        /\ FactorOne  => result = Returned(frames_b)

C15_Witness ==
    /\ Blended /\ blend_mode = "mix" /\ SameShapeAndLength
    /\ FactorOne
    /\ Len(frames_a.frames) > 0
    /\ frames_a # frames_b
    /\ result = Returned(frames_b)

\* C16: every sample of a returned blend result lies in [0, 1], for every
\* mode name and every blend_factor in [0, 1].
C16_ResultInUnitInterval ==
    (Blended /\ ~result.raised) =>
        \A i \in 1..Len(result.value.frames) :
            0 <= result.value.frames[i] /\ result.value.frames[i] <= Scale

\* mode add with a sum above 1: the clamp acts
C16_Witness ==
    /\ Blended /\ blend_mode = "add" /\ ~result.raised
    /\ Len(result.value.frames) > 0
    /\ frames_a.frames[1] + frames_b.frames[1] > Scale
    /\ FactorOne
    /\ result.value.frames[1] = Scale

\* C17: for inputs of equal shape and length, blend_factor 0.0 returns
\* frames_a and blend_factor 1.0 returns frames_b, whichever mode is selected.
C17_FactorSelectsInput ==
    (Blended /\ SameShapeAndLength) =>
        /\ FactorZero => result = Returned(frames_a)
        /\ FactorOne  => result = Returned(frames_b)

---------------------------------------------------------------------------
(* Shape reconciliation (SpecBlend).                                       *)

ShapesDiffer == frames_a.shape # frames_b.shape
Reference == BlendOperandA(frames_a, frames_b)
Target    == BlendOperandB(frames_a, frames_b)

\* C18: resize_video_to_match(reference, target) returns target itself when
\* the per-frame shapes are equal; otherwise it returns a sequence with as many
\* frames as target, every frame with the reference's height and width and the
\* target's channel count.
C18_ResizeToMatch ==
    Blended =>
        /\ ~ShapesDiffer => resized_b = Returned(Target)
        /\ ShapesDiffer =>
              /\ ~resized_b.raised
              /\ Len(resized_b.value.frames) = Len(Target.frames)
              /\ resized_b.value.shape.h = Reference.shape.h
              /\ resized_b.value.shape.w = Reference.shape.w
              /\ resized_b.value.shape.c = Target.shape.c

\* What does hold: the same when target has at least one frame.
ResizeToMatchOfNonEmpty ==
    (Blended /\ Len(Target.frames) > 0) =>
        /\ ~ShapesDiffer => resized_b = Returned(Target)
        /\ ShapesDiffer =>
              /\ ~resized_b.raised
              /\ Len(resized_b.value.frames) = Len(Target.frames)
              /\ resized_b.value.shape.h = Reference.shape.h
              /\ resized_b.value.shape.w = Reference.shape.w
              /\ resized_b.value.shape.c = Target.shape.c

\* C19: blending two sequences whose frame shapes differ always returns a
\* result, also when the sequence to be resized has zero frames.
C19_MismatchNeverFails ==
    (Blended /\ ShapesDiffer) => ~result.raised

\* What does hold: it fails exactly when the sequence to be resized is empty.
MismatchFailsOnlyOnEmpty ==
    (Blended /\ ShapesDiffer) => (result.raised <=> Len(Target.frames) = 0)

---------------------------------------------------------------------------
(* The interpolation path (SpecStitch).                                    *)

\* video_b as resize_video_to_match returns it
ReconciledB == resize_video_to_match(video_a, video_b).value.frames

SyntheticFrames ==
    [i \in 1..interpolation_frames |->
        BlendFrames(video_a.frames[LenA], ReconciledB[1],
                    CurveAlpha(interpolation_method, i, interpolation_frames + 1))]

InterpolationContent ==
    /\ ~result.raised
    /\ Frames = Take(video_a.frames, LenA - 1) \o SyntheticFrames \o Drop(ReconciledB, 1)
    /\ \A ov \in MinOverlap..MaxTransition, cf \in 0..MaxTransition :
          result = stitch_two_videos(video_a, video_b, ov, cf,
                                     interpolation_frames, interpolation_method)

\* C20: with interpolation_frames = n > 0 the result is a without its last
\* frame, then n frames last(a) * (1 - alpha_i) + first(b) * alpha_i with
\* alpha_i = curve(method, i / (n + 1)), then b without its first frame, and
\* it is the same for every crossfade_frames and overlap_frames.
C20_InterpolationContent ==
    (Stitched /\ InterpolationPath) => InterpolationContent

\* What does hold: the same for non-empty clips.
InterpolationContentOfNonEmpty ==
    (Stitched /\ InterpolationPath /\ LenA > 0 /\ LenB > 0) => InterpolationContent

---------------------------------------------------------------------------
(* The crossfade path (SpecStitch).                                        *)

ZoneA == Drop(video_a.frames, LenA - Min(overlap_frames, LenA))
ZoneB == Take(ReconciledB, Min(overlap_frames, LenB))
CrossfadeCount ==
    Min(Min(crossfade_frames, overlap_frames), Min(Len(ZoneA), Len(ZoneB)))

CrossfadeContent ==
    /\ ~result.raised
    /\ Len(Frames) = LenA + LenB - CrossfadeCount
    /\ Take(Frames, LenA - CrossfadeCount) = Take(video_a.frames, LenA - CrossfadeCount)
    /\ \A i \in 1..CrossfadeCount :
          Frames[LenA - CrossfadeCount + i] =
              BlendFrames(ZoneA[Len(ZoneA) - CrossfadeCount + i], ZoneB[i],
                          CurveAlpha(interpolation_method, i, CrossfadeCount + 1))
    /\ Drop(Frames, LenA) = Drop(ReconciledB, CrossfadeCount)

\* C21: in the crossfade path, with zone_a the last min(overlap, len(a))
\* frames of a, zone_b the first min(overlap, len(b)) frames of b and
\* c = min(crossfade, overlap, len(zone_a), len(zone_b)), the result holds
\* exactly c blended frames (the frames before and after them are the
\* inputs'), and blended frame i is
\* zone_a[len(zone_a) - c + i] * (1 - alpha) + zone_b[i] * alpha with
\* alpha = curve(method, (i + 1) / (c + 1)).
C21_CrossfadeContent ==
    (Stitched /\ CrossfadePath) => CrossfadeContent

\* What does hold: the same for non-empty clips.
CrossfadeContentOfNonEmpty ==
    (Stitched /\ CrossfadePath /\ LenA > 0 /\ LenB > 0) => CrossfadeContent

\* C22: with interpolation_frames = 0, a call with crossfade_frames above
\* overlap_frames has the outcome of the call with crossfade_frames equal to
\* overlap_frames.
C22_CrossfadeCappedToOverlap ==
    (Stitched /\ interpolation_frames = 0 /\ crossfade_frames > overlap_frames) =>
        result = stitch_two_videos(video_a, video_b, overlap_frames, overlap_frames,
                                   0, interpolation_method)

C22_Witness ==
    /\ Stitched /\ interpolation_frames = 0
    /\ crossfade_frames > overlap_frames
    /\ LenA > crossfade_frames /\ LenB > crossfade_frames
    /\ ~result.raised
    /\ Len(Frames) = LenA + LenB - overlap_frames

\* C24: in the crossfade path with both inputs non-empty the result has
\* len(a) + len(b) - min(crossfade, overlap, len(a), len(b)) frames.
C24_CrossfadeLength ==
    (Stitched /\ CrossfadePath /\ LenA > 0 /\ LenB > 0) =>
        /\ ~result.raised
        /\ Len(Frames) = LenA + LenB
                         - Min(Min(crossfade_frames, overlap_frames), Min(LenA, LenB))

\* a zone longer than the crossfade count: some zone frames are not blended
C24_Witness ==
    /\ Stitched /\ CrossfadePath /\ LenA > 0 /\ LenB > 0
    /\ crossfade_frames < overlap_frames
    /\ overlap_frames <= LenA /\ overlap_frames <= LenB
    /\ ~result.raised
    /\ Len(Frames) = LenA + LenB - crossfade_frames

---------------------------------------------------------------------------
(* The blended loop (SpecLoop).                                            *)

LoopBlends == Looped /\ clamped_frames >= 2
HeadZone == Take(video.frames, clamped_frames)
TailZone == Drop(video.frames, NumFrames - clamped_frames)
MiddleZone == SubSeq(video.frames, clamped_frames + 1, NumFrames - clamped_frames)

\* C23: when the loop blends (clamped k >= 2) the result has as many frames
\* as the input and is head ++ middle ++ blended_tail: head the first k input
\* frames, middle the input frames k .. len-k-1, blended frame i equal to
\* tail[i] * (1 - w) + head[i] * w with w = curve(blend_curve, i / (k - 1)).
C23_LoopContent ==
    LoopBlends =>
        /\ ~result.raised
        /\ Len(Frames) = NumFrames
        /\ Frames = HeadZone \o MiddleZone
                    \o [i \in 1..clamped_frames |->
                          BlendFrames(TailZone[i], HeadZone[i],
                                      LoopAlpha(blend_curve, i - 1, clamped_frames - 1))]
        /\ (2 * clamped_frames = NumFrames) => MiddleZone = <<>>

C23_Witness ==
    /\ LoopBlends
    /\ Len(MiddleZone) > 0
    /\ Len(Frames) = NumFrames
    /\ video.frames[1] # video.frames[NumFrames]

\* C27: when the loop blends with curve linear, ease_in_out or cosine, the
\* first blended frame is input frame len-k unchanged and the last frame of
\* the result is input frame k-1 (the last frame of the head zone).
C27_LoopEndpoints ==
    (LoopBlends /\ blend_curve \in KnownCurves) =>
        /\ blended[1] = video.frames[NumFrames - clamped_frames + 1]
        /\ Frames[NumFrames - clamped_frames + 1] = video.frames[NumFrames - clamped_frames + 1]
        /\ Frames[Len(Frames)] = video.frames[clamped_frames]

\* a clip whose frame k-1 differs from frame 0 and from the last frame
C27_Witness ==
    /\ LoopBlends /\ blend_curve = "cosine"
    /\ video.frames[clamped_frames] # video.frames[1]
    /\ video.frames[clamped_frames] # video.frames[NumFrames]
    /\ Frames[Len(Frames)] = video.frames[clamped_frames]

---------------------------------------------------------------------------
(* The fold of chain stitch (SpecChain).                                   *)

TakenClips == all_videos(videos)
\* (clips \in {TakenClips} binds the value, so that it is computed once)
AllClipsNonEmpty ==
    \A clips \in {TakenClips} : \A i \in 1..Len(clips) : Len(clips[i].frames) > 0

RECURSIVE SumOfLengths(_)
SumOfLengths(clips) ==
    IF clips = <<>> THEN 0
    ELSE Len(Head(clips).frames) + SumOfLengths(Tail(clips))

\* C25: in chain stitch with every clip taken non-empty, every fold step
\* completes with a non-empty result, and with interpolation_frames = n > 0
\* and m clips of lengths L1..Lm, total_frames = L1 + .. + Lm + (m-1)*(n-2).
C25_FoldStaysNonEmpty ==
    (Chained /\ AllClipsNonEmpty) =>
        \A clips \in {TakenClips} :
            /\ Len(partials) = Len(clips)
            /\ \A i \in 1..Len(partials) :
                  ~partials[i].raised /\ Len(partials[i].value.frames) > 0
            /\ interpolation_frames > 0 =>
                  total_frames = SumOfLengths(clips)
                                 + (Len(clips) - 1) * (interpolation_frames - 2)

C25_Witness ==
    /\ Chained /\ AllClipsNonEmpty
    /\ Len(TakenClips) >= 3
    /\ interpolation_frames > 0
    /\ total_frames = SumOfLengths(TakenClips) + (Len(TakenClips) - 1) * (interpolation_frames - 2)

\* C26: after every fold step of chain stitch the accumulated result has the
\* height and width of video_1, whatever the dimensions of the other clips;
\* clips of other dimensions do not stop the fold.
C26_FoldKeepsDimensions ==
    Chained =>
        /\ \A i \in 1..Len(partials) :
              ~partials[i].raised =>
                  /\ partials[i].value.shape.h = videos[1][1].shape.h
                  /\ partials[i].value.shape.w = videos[1][1].shape.w
        /\ result.raised => ~AllClipsNonEmpty

C26_Witness ==
    /\ Chained /\ AllClipsNonEmpty
    /\ Len(TakenClips) >= 3
    /\ TakenClips[2].shape # TakenClips[1].shape
    /\ TakenClips[3].shape # TakenClips[1].shape
    /\ ~result.raised
    /\ result.value.shape = TakenClips[1].shape

---------------------------------------------------------------------------
(* The scraping session (SpecScrape).                                      *)

RunInProgress == scrape_pc \notin {"pending", "returned"}
Statuses == {"idle", "scraping", "cancelled", "completed", "error"}

\* C28: once cancel_scraping has set the status to 'cancelled' while the run
\* is in progress, the status stays 'cancelled', through the return of
\* start_scraping.
C28_CancelledIsKept ==
    [][(HasSession /\ RunInProgress /\ Session.status = "cancelled")
          => Session'.status = "cancelled"]_vars

\* What does hold: after the cancellation the run starts no further image
\* iteration.
NoIterationAfterCancel ==
    [][(HasSession /\ RunInProgress /\ Session.status = "cancelled")
          => ~(scrape_pc' = "fetch" /\ scrape_pc = "loop")]_vars

\* What happens: a scrape cancelled during its run is reported as completed.
CancelledReportedCompleted ==
    /\ scrape_pc = "returned"
    /\ image_index < max_images
    /\ reported = "completed"

\* C29: in every state of a session started with max_images >= 0,
\* 0 <= scraped_images <= total_images, 0 <= progress <= 100 and status is one
\* of idle, scraping, cancelled, completed, error.
C29_SessionInvariant ==
    HasSession =>
        /\ 0 <= Session.scraped_images
        /\ Session.scraped_images <= Session.total_images
        /\ 0 <= Session.progress
        /\ Session.progress <= 100
        /\ Session.status \in Statuses

\* the last iteration of a run of three images, two of them stored
C29_Witness ==
    /\ HasSession
    /\ scrape_pc = "wait_next"
    /\ Session.total_images = MaxImages
    /\ image_index = MaxImages - 1
    /\ Session.scraped_images >= 2
    /\ Session.progress > 10

---------------------------------------------------------------------------
(* The image library (SpecLibrary).                                        *)

Associations(image_id, machine_name) ==
    { r \in machine_names : r.image_id = image_id /\ r.machine_name = machine_name }

\* C30: after any number of calls of add_image_to_library with the same image
\* path and the same machine name, table images holds exactly one row for the
\* path and table machine_names exactly one association of that image with
\* that machine name.
C30_AddIsIdempotent ==
    /\ \A image_path \in ImagePaths : Cardinality(Existing(images, image_path)) <= 1
    /\ \A r \in machine_names : Cardinality(Associations(r.image_id, r.machine_name)) = 1

\* What does hold: one row of images per path, with the category of the last
\* call, and every association points to a row of images.
OneImageRowPerPath ==
    /\ \A image_path \in ImagePaths : Cardinality(Existing(images, image_path)) <= 1
    /\ \A r \in machine_names : \E row \in images : row.id = r.image_id

====
